---- MODULE Spec2Model ----
(***************************************************************************)
(* Include-graph builder of graph.py: directive extraction, path           *)
(* resolution against prefix lists, node/edge accumulation, group keys.    *)
(*                                                                         *)
(* A Python string is modelled as a sequence of atoms.  The atom "/" is    *)
(* os.sep; the atoms "#include", " ", the two quotes, "<", ">" and "\n"    *)
(* are the characters the include pattern looks at; every other atom is an *)
(* opaque chunk of text that contains none of those characters.            *)
(***************************************************************************)
EXTENDS Integers, Sequences, FiniteSets, TLC

VARIABLES
    relation,           \* Graph.relation: "includes" or "included-by"
    group_granularity,  \* Graph.group_granularity
    directories,        \* args.directories
    patterns,           \* args.patterns
    prefixes,           \* args.prefixes (cwd, -I prefixes, then '')
    unreadable,         \* files of the snapshot that open() fails on
    nodes,              \* Graph.nodes: node_name -> node
    edges,              \* Graph.edges
    pc,                 \* position of walk(): "walk", "done", "raised", "idle"
    di,                 \* index of the directory loop
    pi,                 \* index of the pattern loop
    todo,               \* filenames glob() has still to yield
    scans,              \* history: the graph.add calls of this run, in order
    run,                \* 1: first run of main, 2: the rerun
    prev,               \* history: node paths and edges by path of run 1
    tp_path,            \* try_prefixes: argument path
    tp_prefixes,        \* try_prefixes: argument prefixes
    tp_result,          \* try_prefixes: returned value
    line,               \* get_includes: the line under pattern.match
    extracted           \* get_includes: match.group(1) of the line, or NoMatch

vars == <<relation, group_granularity, directories, patterns, prefixes,
          unreadable, nodes, edges, pc, di, pi, todo, scans, run, prev,
          tp_path, tp_prefixes, tp_result, line, extracted>>

wvars == <<relation, group_granularity, directories, patterns, prefixes,
           unreadable, nodes, edges, pc, di, pi, todo, scans, run, prev>>

rvars == <<tp_path, tp_prefixes, tp_result>>

evars == <<line, extracted>>

-----------------------------------------------------------------------------
(* Bounds of the model *)

MaxGranularity == 3

MaxPrefixes == 2

MaxLineLen == 5

-----------------------------------------------------------------------------
(* Strings *)

Sep == "/"

CurDir == <<".">>

ParDir == <<"..">>

Last(s) == s[Len(s)]

Front(s) == SubSeq(s, 1, Len(s) - 1)

Max(a, b) == IF a > b THEN a ELSE b

Min(a, b) == IF a < b THEN a ELSE b

\* str.startswith
StartsWith(s, p) == Len(p) <= Len(s) /\ SubSeq(s, 1, Len(p)) = p

\* str.find(c) + 1: position of the first c in s, 0 when there is none
Find(s, c) ==
    IF \E i \in 1..Len(s) : s[i] = c
    THEN CHOOSE i \in 1..Len(s) : s[i] = c /\ \A j \in 1..(i - 1) : s[j] # c
    ELSE 0

\* str.rfind(c) + 1: position of the last c in s, 0 when there is none
RFind(s, c) ==
    IF \E i \in 1..Len(s) : s[i] = c
    THEN CHOOSE i \in 1..Len(s) : s[i] = c /\ \A j \in (i + 1)..Len(s) : s[j] # c
    ELSE 0

\* str.split(os.sep): the list of segments, each a string
RECURSIVE Split(_)
Split(s) ==
    LET i == Find(s, Sep)
    IN  IF i = 0 THEN <<s>>
        ELSE <<SubSeq(s, 1, i - 1)>> \o Split(SubSeq(s, i + 1, Len(s)))

\* os.sep.join(segments)
RECURSIVE JoinSep(_)
JoinSep(segs) ==
    IF segs = <<>> THEN <<>>
    ELSE IF Len(segs) = 1 THEN segs[1]
    ELSE segs[1] \o <<Sep>> \o JoinSep(Tail(segs))

\* str.rstrip(os.sep)
RECURSIVE RStripSep(_)
RStripSep(s) ==
    IF s # <<>> /\ Last(s) = Sep THEN RStripSep(Front(s)) ELSE s

\* list[b:e] with Python's clamping of negative and oversized indices
PySlice(s, b, e) ==
    LET n  == Len(s)
        b1 == IF b < 0 THEN Max(b + n, 0) ELSE Min(b, n)
        e1 == IF e < 0 THEN Max(e + n, 0) ELSE Min(e, n)
    IN  SubSeq(s, b1 + 1, e1)

\* the permutations of a finite set, as sequences (set iteration order)
Orders(S) ==
    {f \in [1..Cardinality(S) -> S] : \A i, j \in 1..Cardinality(S) : f[i] = f[j] => i = j}

\* the sequences over S of length at most n
SeqsUpTo(S, n) == UNION {[1..k -> S] : k \in 0..n}

-----------------------------------------------------------------------------
(* The filesystem snapshot *)

\* the string of the absolute path with the given segments
Abs(segs) == <<Sep>> \o JoinSep(segs)

Cwd == Abs(<< <<"w">> >>)

DirR == Abs(<< <<"r">> >>)

DirRA == Abs(<< <<"r">>, <<"a">> >>)

FileACpp == Abs(<< <<"r">>, <<"a", ".cpp">> >>)

FileBH == Abs(<< <<"r">>, <<"b", ".h">> >>)

FileXH == Abs(<< <<"r">>, <<"a">>, <<"x", ".h">> >>)

FileYH == Abs(<< <<"r">>, <<"a">>, <<"y", ".h">> >>)

\* directories (canonical paths)
FsDirs == {<<Sep>>, DirR, DirRA, Cwd}

\* regular files (canonical paths)
FsFiles == {FileACpp, FileBH, FileXH, FileYH}

\* symbolic links: segments of the link -> segments of its target
SymLinkAt == << <<"w">>, <<"inc">> >>

SymLinkTarget == << <<"r">>, <<"a">> >>

Quote == "\""

\* a header no prefix holds: sys/net/ip/tcp.h
SysHeader == <<"sys", Sep, "net", Sep, "ip", Sep, "tcp", ".h">>

Include(open, token, close) == <<"#include", " ", open>> \o token \o <<close, "\n">>

\* the lines of each regular file
FileLines(f) ==
    IF f = FileACpp THEN
        << Include(Quote, <<"b", ".h">>, Quote),
           Include(Quote, <<"b", ".h">>, Quote),
           Include("<", SysHeader, ">"),
           Include(Quote, <<"inc", Sep, "y", ".h">>, Quote),
           Include(Quote, <<"a", Sep, "y", ".h">>, Quote) >>
    ELSE IF f = FileBH THEN
        << <<"int", " ", "b", "\n">>,
           <<" ">> \o Include(Quote, <<"x", ".h">>, Quote) >>
    ELSE IF f = FileXH THEN
        << Include(Quote, <<"y", ".h">>, Quote),
           Include("<", FileYH, ">") >>
    ELSE IF f = FileYH THEN
        << Include(Quote, <<"..", Sep, "b", ".h">>, Quote),
           <<"#include", " ", Quote, "x", ".h", Quote, " ", "comment", "\n">> >>
    ELSE <<>>

-----------------------------------------------------------------------------
(* os.path and fnmatch *)

\* os.path.isabs
isabs(p) == p # <<>> /\ p[1] = Sep

\* os.path.join(a, b)
join(a, b) ==
    IF isabs(b) THEN b
    ELSE IF a = <<>> \/ Last(a) = Sep THEN a \o b
    ELSE a \o <<Sep>> \o b

\* the component walk of os.path.realpath: "done" is the resolved directory
\* (a list of segments below the root), "rest" the segments still to take
RECURSIVE JoinRealPath(_, _)
JoinRealPath(done, rest) ==
    IF rest = <<>> THEN done
    ELSE LET name == Head(rest)
         IN  IF name = <<>> \/ name = CurDir THEN JoinRealPath(done, Tail(rest))
             ELSE IF name = ParDir
                  THEN JoinRealPath(IF done = <<>> THEN <<>> ELSE Front(done), Tail(rest))
             ELSE IF Append(done, name) = SymLinkAt
                  THEN JoinRealPath(SymLinkTarget, Tail(rest))
             ELSE JoinRealPath(Append(done, name), Tail(rest))

\* os.path.realpath: absolute, symlink-free, normalised
realpath(p) == Abs(JoinRealPath(<<>>, Split(IF isabs(p) THEN p ELSE join(Cwd, p))))

\* os.path.exists, of a path realpath returned
exists(p) == p \in FsDirs \cup FsFiles

\* os.path.isdir
isdir(p) == p \in FsDirs

\* os.path.dirname
dirname(p) ==
    LET head == SubSeq(p, 1, RFind(p, Sep))
    IN  IF head # <<>> /\ (\E i \in 1..Len(head) : head[i] # Sep)
        THEN RStripSep(head)
        ELSE head

\* os.path.basename
basename(p) == SubSeq(p, RFind(p, Sep) + 1, Len(p))

\* fnmatch.fnmatch of a name against a pattern of literal atoms and "*"
RECURSIVE fnmatch(_, _)
fnmatch(name, pat) ==
    IF pat = <<>> THEN name = <<>>
    ELSE IF Head(pat) = "*"
         THEN \E k \in 0..Len(name) : fnmatch(SubSeq(name, k + 1, Len(name)), Tail(pat))
    ELSE name # <<>> /\ Head(name) = Head(pat) /\ fnmatch(Tail(name), Tail(pat))

\* the directories os.walk(top) visits: top and the real directories below it
WalkDirs(top) ==
    {d \in FsDirs : d = top \/ StartsWith(d, join(top, <<>>))}

\* glob(directory, pattern): the filenames it yields, as a set
glob(directory, pattern) ==
    {join(dirname(f), basename(f)) :
        f \in {g \in FsFiles : dirname(g) \in WalkDirs(directory)
                               /\ fnmatch(basename(g), pattern)}}

-----------------------------------------------------------------------------
(* try_prefixes and get_includes *)

\* the path try_prefixes tests for one prefix
full_path_of(prefix, path) == realpath(join(prefix, path))

\* try_prefixes had it kept searching after a hit: the last existing path wins
try_prefixes_last(path, pfxs) ==
    LET hits == {i \in DOMAIN pfxs : exists(full_path_of(pfxs[i], path))}
    IN  IF hits = {} THEN path
        ELSE full_path_of(pfxs[CHOOSE i \in hits : \A j \in hits : j <= i], path)

RECURSIVE try_prefixes(_, _)
try_prefixes(path, pfxs) ==
    IF pfxs = <<>> THEN path
    ELSE IF exists(full_path_of(Head(pfxs), path)) THEN full_path_of(Head(pfxs), path)
    ELSE try_prefixes(path, Tail(pfxs))

\* what '$' leaves of the line: the line without one trailing newline
BeforeEnd(ln) == IF ln # <<>> /\ Last(ln) = "\n" THEN Front(ln) ELSE ln

\* pattern.match(line) is not None, for r'^#include ["<](.*)[">]$'
PatternMatches(ln) ==
    LET body == BeforeEnd(ln)
    IN  /\ Len(body) >= 4
        /\ body[1] = "#include"
        /\ body[2] = " "
        /\ body[3] \in {Quote, "<"}
        /\ Last(body) \in {Quote, ">"}
        /\ \A i \in 4..(Len(body) - 1) : body[i] # "\n"

\* match.group(1)
Group1(ln) == SubSeq(BeforeEnd(ln), 4, Len(BeforeEnd(ln)) - 1)

\* get_includes(filename, prefixes) of a file that opens
get_includes(filename, pfxs) ==
    {try_prefixes(Group1(FileLines(filename)[i]), pfxs) :
        i \in {j \in DOMAIN FileLines(filename) : PatternMatches(FileLines(filename)[j])}}

-----------------------------------------------------------------------------
(* Graph *)

\* a graph value: the two collections of a Graph object
GraphOf(ns, es) == [nodes |-> ns, edges |-> es]

\* Graph.__init__: no nodes, no edges
NoNodes == [n \in {} |-> [id |-> 0, size |-> 0, group |-> <<>>]]

\* settings.get('size', 1), settings being a set of <<key, value>> pairs
SizeSetting(settings) ==
    IF \E kv \in settings : kv[1] = "size"
    THEN (CHOOSE kv \in settings : kv[1] = "size")[2]
    ELSE 1

\* node['group'] of _add_node
group(node_name) ==
    LET dirs  == Split(dirname(node_name))
        begin == Len(dirs) - group_granularity
    IN  JoinSep(PySlice(dirs, begin, begin + 2))

\* Graph._add_node: the graph with the new node stored
_add_node(g, node_name, settings) ==
    LET node == [id    |-> Cardinality(DOMAIN g.nodes),
                 size  |-> SizeSetting(settings),
                 group |-> group(node_name)]
    IN  [g EXCEPT !.nodes = [n \in DOMAIN g.nodes \cup {node_name} |->
                                IF n = node_name THEN node ELSE g.nodes[n]]]

\* _get_or_add_node had it not looked the name up: every call adds a node
_get_or_add_node_always(g, node_name, settings) == _add_node(g, node_name, settings)

\* Graph._get_or_add_node: the node is then g.nodes[node_name]
_get_or_add_node(g, node_name, settings) ==
    IF node_name \in DOMAIN g.nodes THEN g ELSE _add_node(g, node_name, settings)

\* _add_edge had it skipped an edge whose endpoints an earlier edge joins
_add_edge_dedup(g, source, target) ==
    IF \E i \in DOMAIN g.edges : /\ g.edges[i].source = g.nodes[source].id
                                  /\ g.edges[i].target = g.nodes[target].id
    THEN g
    ELSE [g EXCEPT !.edges = Append(@, [id     |-> Len(g.edges),
                                        source |-> g.nodes[source].id,
                                        target |-> g.nodes[target].id])]

\* Graph._add_edge, source and target being the names of two stored nodes.
\* The edge is filled in from source and target before the two locals are
\* swapped for 'included-by'; nothing reads them after the swap.
_add_edge(g, source, target) ==
    LET edge    == [id     |-> Len(g.edges),
                    source |-> g.nodes[source].id,
                    target |-> g.nodes[target].id]
        swapped == IF relation = "included-by"
                   THEN <<target, source>> ELSE <<source, target>>
    IN  [g EXCEPT !.edges = Append(@, edge)]

\* the loop of Graph.add had it made an edge only to a neighbor it created
RECURSIVE AddNeighbors_new_only(_, _, _)
AddNeighbors_new_only(g, node_name, order) ==
    IF order = <<>> THEN g
    ELSE AddNeighbors_new_only(
             IF Head(order) \in DOMAIN g.nodes THEN g
             ELSE _add_edge(_add_node(g, Head(order), {}), node_name, Head(order)),
             node_name, Tail(order))

\* the loop of Graph.add over the neighbors, in iteration order
RECURSIVE AddNeighbors(_, _, _)
AddNeighbors(g, node_name, order) ==
    IF order = <<>> THEN g
    ELSE AddNeighbors(_add_edge(_get_or_add_node(g, Head(order), {}),
                                node_name, Head(order)),
                      node_name, Tail(order))

\* Graph.add had it left the size of a node that exists already alone
add_keep_size(g, node_name, order) ==
    AddNeighbors(_get_or_add_node(g, node_name, {<<"size", Len(order)>>}),
                 node_name, order)

\* Graph.add, the set of neighbors being iterated in the given order
add(g, node_name, order) ==
    LET g1 == _get_or_add_node(g, node_name, {<<"size", Len(order)>>})
        g2 == [g1 EXCEPT !.nodes[node_name].size = Len(order)]
    IN  AddNeighbors(g2, node_name, order)

\* the edges by endpoint paths, each with the number of edges joining the pair
EdgesByPath(ns, es) ==
    {<<s, t, Cardinality({i \in DOMAIN es : es[i].source = ns[s].id
                                            /\ es[i].target = ns[t].id})>> :
        s \in DOMAIN ns, t \in DOMAIN ns}

-----------------------------------------------------------------------------
(* walk *)

PatCpp == <<"*", ".cpp">>

PatH == <<"*", ".h">>

RootLists == {<<DirR>>, <<DirRA>>, <<DirR, DirRA>>, <<DirRA, DirR>>}

PatternLists == {<<PatCpp, PatH>>, <<PatH, PatCpp>>, <<PatH>>}

PrefixLists == {<<Cwd, <<>> >>, <<Cwd, DirRA, <<>> >>}

UnreadableSets == {{}, {FileBH}}

\* the set of elements of a sequence
Range(s) == {s[i] : i \in DOMAIN s}

\* path of walk: the root of the current directory loop
path == realpath(directories[di])

\* os.walk is top-down: a directory's files come before those below it
NextUp(f) ==
    /\ f \in todo
    /\ \A h \in todo : ~(dirname(h) # dirname(f)
                         /\ StartsWith(dirname(f), dirname(h) \o <<Sep>>))

NoPrev == [paths |-> {}, edges |-> {}, directories |-> <<>>, patterns |-> <<>>]

\* the walker at rest, while a function is exercised on its own
Idle ==
    /\ relation = "includes"
    /\ group_granularity = 0
    /\ directories = <<>>
    /\ patterns = <<>>
    /\ prefixes = <<>>
    /\ unreadable = {}
    /\ nodes = NoNodes
    /\ edges = <<>>
    /\ pc = "idle"
    /\ di = 1
    /\ pi = 1
    /\ todo = {}
    /\ scans = <<>>
    /\ run = 1
    /\ prev = NoPrev

NotReturned == [returned |-> FALSE, value |-> <<>>]

NotTried == [tried |-> FALSE, matched |-> FALSE, token |-> <<>>]

NoCall ==
    /\ tp_path = <<>>
    /\ tp_prefixes = <<>>
    /\ tp_result = NotReturned

NoLine ==
    /\ line = <<>>
    /\ extracted = NotTried

\* main up to the call of walk, and walk up to its first glob
Init ==
    /\ relation \in {"includes", "included-by"}
    /\ group_granularity \in 0..MaxGranularity
    /\ directories \in RootLists
    /\ patterns \in PatternLists
    /\ prefixes \in PrefixLists
    /\ unreadable \in UnreadableSets
    /\ nodes = NoNodes
    /\ edges = <<>>
    /\ pc = "walk"
    /\ di = 1
    /\ pi = 1
    /\ todo = glob(realpath(directories[1]), patterns[1])
    /\ scans = <<>>
    /\ run = 1
    /\ prev = NoPrev
    /\ NoCall
    /\ NoLine

\* one iteration of the innermost loop of walk, on filename f
Scan(f) ==
    /\ pc = "walk"
    /\ NextUp(f)
    /\ IF isdir(f)
       THEN /\ todo' = todo \ {f}
            /\ UNCHANGED <<nodes, edges, pc, scans>>
       ELSE IF f \in unreadable
       THEN /\ pc' = "raised"
            /\ UNCHANGED <<nodes, edges, todo, scans>>
       ELSE LET includes == get_includes(f, <<path>> \o prefixes)
            IN  \E order \in Orders(includes) :
                  LET g == add(GraphOf(nodes, edges), f, order)
                  IN  /\ nodes' = g.nodes
                      /\ edges' = g.edges
                      /\ todo' = todo \ {f}
                      /\ scans' = Append(scans, [file |-> f, root |-> path,
                                                 order |-> order])
                      /\ pc' = pc
    /\ UNCHANGED <<relation, group_granularity, directories, patterns, prefixes,
                   unreadable, di, pi, run, prev, rvars, evars>>

\* the glob of one (directory, pattern) is exhausted: the next one starts
NextGlob ==
    /\ pc = "walk"
    /\ todo = {}
    /\ ~(di = Len(directories) /\ pi = Len(patterns))
    /\ LET d == IF pi < Len(patterns) THEN di ELSE di + 1
           p == IF pi < Len(patterns) THEN pi + 1 ELSE 1
       IN  /\ di' = d
           /\ pi' = p
           /\ todo' = glob(realpath(directories[d]), patterns[p])
    /\ UNCHANGED <<relation, group_granularity, directories, patterns, prefixes,
                   unreadable, nodes, edges, pc, scans, run, prev, rvars, evars>>

\* the loops of walk are over: it prints the result and returns
Finish ==
    /\ pc = "walk"
    /\ todo = {}
    /\ di = Len(directories)
    /\ pi = Len(patterns)
    /\ pc' = "done"
    /\ UNCHANGED <<relation, group_granularity, directories, patterns, prefixes,
                   unreadable, nodes, edges, di, pi, todo, scans, run, prev,
                   rvars, evars>>

\* main is run again on the same snapshot, roots and patterns permuted
Rerun ==
    /\ pc = "done"
    /\ run = 1
    /\ \E d \in Orders(Range(directories)), p \in Orders(Range(patterns)) :
         /\ directories' = d
         /\ patterns' = p
         /\ todo' = glob(realpath(d[1]), p[1])
    /\ prev' = [paths |-> DOMAIN nodes, edges |-> EdgesByPath(nodes, edges),
                directories |-> directories, patterns |-> patterns]
    /\ nodes' = NoNodes
    /\ edges' = <<>>
    /\ scans' = <<>>
    /\ di' = 1
    /\ pi' = 1
    /\ run' = 2
    /\ pc' = "walk"
    /\ UNCHANGED <<relation, group_granularity, prefixes, unreadable, rvars, evars>>

Next ==
    \/ \E f \in FsFiles : Scan(f)
    \/ NextGlob
    \/ Finish
    \/ Rerun

Spec == Init /\ [][Next]_vars

-----------------------------------------------------------------------------
(* try_prefixes on its own *)

Tokens ==
    { <<"b", ".h">>, <<"y", ".h">>, <<"a", Sep, "y", ".h">>,
      <<"inc", Sep, "y", ".h">>, <<"..", Sep, "b", ".h">>, <<"vector">>,
      FileBH, <<>> }

PrefixPool == {DirR, DirRA, Cwd, <<"inc">>, <<>>}

InitResolve ==
    /\ Idle
    /\ NoLine
    /\ tp_path \in Tokens
    /\ tp_prefixes \in SeqsUpTo(PrefixPool, MaxPrefixes)
    /\ tp_result = NotReturned

\* a call of try_prefixes(tp_path, tp_prefixes)
CallTryPrefixes ==
    /\ ~tp_result.returned
    /\ tp_result' = [returned |-> TRUE, value |-> try_prefixes(tp_path, tp_prefixes)]
    /\ UNCHANGED <<tp_path, tp_prefixes, wvars, evars>>

NextResolve == CallTryPrefixes

SpecResolve == InitResolve /\ [][NextResolve]_vars

-----------------------------------------------------------------------------
(* The include pattern on its own *)

LineAtoms == {"#include", " ", Quote, "<", ">", "x"}

\* the lines a file yields: text without a newline, then at most one newline
Lines == {body \o nl : body \in SeqsUpTo(LineAtoms, MaxLineLen), nl \in {<<>>, <<"\n">>}}

InitExtract ==
    /\ Idle
    /\ NoCall
    /\ line \in Lines
    /\ extracted = NotTried

\* one iteration of the loop of get_includes: pattern.match(line)
MatchLine ==
    /\ ~extracted.tried
    /\ extracted' = IF PatternMatches(line)
                    THEN [tried |-> TRUE, matched |-> TRUE, token |-> Group1(line)]
                    ELSE [tried |-> TRUE, matched |-> FALSE, token |-> <<>>]
    /\ UNCHANGED <<line, wvars, rvars>>

NextExtract == MatchLine

SpecExtract == InitExtract /\ [][NextExtract]_vars

-----------------------------------------------------------------------------
(* What the history says about a run *)

\* the neighbors of the k-th graph.add call, as a set
ScanIncludes(k) == Range(scans[k].order)

\* the number of edges the calls before the k-th made
RECURSIVE EdgesBefore(_)
EdgesBefore(k) == IF k <= 1 THEN 0 ELSE EdgesBefore(k - 1) + Len(scans[k - 1].order)

\* the positions in Graph.edges of the edges the k-th call made
EdgesOfScan(k) == (EdgesBefore(k) + 1)..(EdgesBefore(k) + Len(scans[k].order))

\* edge i joins the nodes named a and b, in either direction
Joins(i, a, b) ==
    \/ edges[i].source = nodes[a].id /\ edges[i].target = nodes[b].id
    \/ edges[i].source = nodes[b].id /\ edges[i].target = nodes[a].id

\* the names registered so far, in the order graph.add asked for them
RECURSIVE Registered(_)
Registered(k) ==
    IF k = 0 THEN <<>> ELSE Registered(k - 1) \o <<scans[k].file>> \o scans[k].order

\* a sequence without the later occurrences of its elements
RECURSIVE FirstOccurrences(_)
FirstOccurrences(s) ==
    IF s = <<>> THEN <<>>
    ELSE LET rest == FirstOccurrences(Front(s))
         IN  IF Last(s) \in Range(rest) THEN rest ELSE Append(rest, Last(s))

\* the calls that scanned file n
ScansOf(n) == {k \in DOMAIN scans : scans[k].file = n}

\* the latest of them
LastScanOf(n) == CHOOSE k \in ScansOf(n) : \A j \in ScansOf(n) : j <= k

\* the #include statements of the file of call k that resolve to path b
StatementsFor(k, b) ==
    {i \in DOMAIN FileLines(scans[k].file) :
        /\ PatternMatches(FileLines(scans[k].file)[i])
        /\ try_prefixes(Group1(FileLines(scans[k].file)[i]),
                        <<scans[k].root>> \o prefixes) = b}

\* every candidate of the run: what glob yields for some root and pattern
Candidates ==
    UNION {glob(realpath(directories[d]), patterns[p]) :
              d \in DOMAIN directories, p \in DOMAIN patterns}

-----------------------------------------------------------------------------
(* Claims *)

\* C1: for every include relation "A includes B" the walk found, the edge has
\* source = A, target = B under 'includes' and source = B, target = A under
\* 'included-by'.
DirectionApplied ==
    \A k \in DOMAIN scans : \A b \in ScanIncludes(k) :
        \E i \in EdgesOfScan(k) :
            IF relation = "includes"
            THEN /\ edges[i].source = nodes[scans[k].file].id
                 /\ edges[i].target = nodes[b].id
            ELSE /\ edges[i].source = nodes[b].id
                 /\ edges[i].target = nodes[scans[k].file].id

\* C2: after any sequence of Graph.add calls there is exactly one node per
\* registered name, and the identity of each is the number of names seen before
\* it was first seen: identities are 0..n-1 in first-seen order.  The order of
\* first occurrences only grows at its end, so no identity changes.
NodeIdsFirstSeen ==
    LET seen == FirstOccurrences(Registered(Len(scans)))
    IN  /\ Len(seen) = Cardinality(DOMAIN nodes)
        /\ \A i \in DOMAIN seen : seen[i] \in DOMAIN nodes /\ nodes[seen[i]].id = i - 1

\* a walk that registered some name again after other names were first seen
NodeReRegistered ==
    /\ pc = "done"
    /\ \E k \in DOMAIN scans :
          /\ k > 1
          /\ scans[k].file \in ScanIncludes(1)
          /\ nodes[scans[k].file].id < Cardinality(DOMAIN nodes) - 1
          /\ nodes[scans[k].file].id > 0

\* C3: for every scanned file, at any depth, an include token naming a file of
\* the scanned file's own directory is resolved to that sibling's canonical
\* path, and an edge joins the scanned file and that path.
SiblingResolved ==
    \A k \in DOMAIN scans : \A i \in DOMAIN FileLines(scans[k].file) :
        LET ln      == FileLines(scans[k].file)[i]
            sibling == realpath(join(dirname(scans[k].file), Group1(ln)))
        IN  (/\ PatternMatches(ln)
             /\ Find(Group1(ln), Sep) = 0
             /\ Group1(ln) # <<>>
             /\ sibling \in FsFiles)
            => /\ try_prefixes(Group1(ln), <<scans[k].root>> \o prefixes) = sibling
               /\ sibling \in DOMAIN nodes
               /\ \E e \in EdgesOfScan(k) : Joins(e, scans[k].file, sibling)

\* C4: try_prefixes returns the canonical path of prefix/token for the first
\* prefix, in list order, under which that path exists, and the raw token when
\* there is no such prefix.
FirstExistingPrefix ==
    tp_result.returned =>
        LET hits == {i \in DOMAIN tp_prefixes :
                        exists(realpath(join(tp_prefixes[i], tp_path)))}
        IN  IF hits = {} THEN tp_result.value = tp_path
            ELSE \E i \in hits :
                    /\ \A j \in hits : i <= j
                    /\ tp_result.value = realpath(join(tp_prefixes[i], tp_path))

\* a call whose first prefix misses and whose second prefix hits, through the
\* symbolic link, on a path that differs from the joined one
SecondPrefixHit ==
    /\ tp_result.returned
    /\ Len(tp_prefixes) = 2
    /\ ~exists(realpath(join(tp_prefixes[1], tp_path)))
    /\ exists(realpath(join(tp_prefixes[2], tp_path)))
    /\ tp_result.value # join(tp_prefixes[2], tp_path)
    /\ tp_result.value # tp_path

\* C5: a candidate that cannot be opened is skipped alone: when the walk has
\* ended, every readable candidate of the run has been registered.
UnreadableSkipped ==
    pc \in {"done", "raised"} =>
        \A f \in Candidates \ unreadable : ScansOf(f) # {}

\* C6: a node whose file was scanned has as weight the number of distinct
\* includes its (latest) scan found, whether its own scan or an earlier include
\* created it; a node that was only an include target has weight 1.
WeightIsIncludeCount ==
    \A n \in DOMAIN nodes :
        IF ScansOf(n) # {}
        THEN nodes[n].size = Cardinality(ScanIncludes(LastScanOf(n)))
        ELSE nodes[n].size = 1

\* a finished walk in which b.h was an include target before it was scanned,
\* and some node was never scanned
TargetThenScanned ==
    /\ pc = "done"
    /\ \E k \in ScansOf(FileBH) : \E j \in 1..(k - 1) : FileBH \in ScanIncludes(j)
    /\ nodes[FileBH].size = 0
    /\ \E n \in DOMAIN nodes : ScansOf(n) = {} /\ nodes[n].size = 1

\* C7, as stated: edges are not deduplicated, so the #include statements of one
\* scanned file that refer to the same file each give an edge.
EdgePerStatement ==
    \A k \in DOMAIN scans : \A b \in ScanIncludes(k) :
        Cardinality({i \in EdgesOfScan(k) : Joins(i, scans[k].file, b)})
            = Cardinality(StatementsFor(k, b))

\* C7, amended: one scan gives exactly one edge per distinct resolved include,
\* however many statements refer to it; the graph drops no edge after that, so
\* the edges joining two names are as many as the scans of one that found the
\* other.
EdgePerScanAndInclude ==
    /\ Len(edges) = EdgesBefore(Len(scans) + 1)
    /\ \A k \in DOMAIN scans : \A b \in ScanIncludes(k) :
          Cardinality({i \in EdgesOfScan(k) : Joins(i, scans[k].file, b)}) = 1
    /\ \A a \in DOMAIN nodes : \A b \in DOMAIN nodes :
          Cardinality({i \in DOMAIN edges : Joins(i, a, b)})
            = Cardinality({k \in ScansOf(a) : b \in ScanIncludes(k)})
              + (IF a = b THEN 0
                 ELSE Cardinality({k \in ScansOf(b) : a \in ScanIncludes(k)}))

\* a.cpp names b.h in two statements and has one edge to it; x.h was scanned
\* under two roots and has two edges to y.h
RepeatedAndRescanned ==
    /\ \E k \in ScansOf(FileACpp) : Cardinality(StatementsFor(k, FileBH)) = 2
    /\ Cardinality({i \in DOMAIN edges : Joins(i, FileACpp, FileBH)}) = 1
    /\ Cardinality(ScansOf(FileXH)) = 2
    /\ Cardinality({i \in DOMAIN edges : Joins(i, FileXH, FileYH)}) = 2

\* C8: on the same snapshot, the walk with roots and patterns permuted gives the
\* same node paths and the same edges by endpoint paths as the first walk.
PermutedWalkSameGraph ==
    (run = 2 /\ pc = "done") =>
        /\ DOMAIN nodes = prev.paths
        /\ EdgesByPath(nodes, edges) = prev.edges

\* a finished second walk whose roots and patterns are both in another order
PermutedWalkDone ==
    /\ run = 2
    /\ pc = "done"
    /\ directories # prev.directories
    /\ patterns # prev.patterns
    /\ Len(edges) > 2

\* the last g segments of a list of directory segments
LastSegments(dirs, g) == SubSeq(dirs, Max(1, Len(dirs) - g + 1), Len(dirs))

\* C9: for every granularity g the group key of a node is the last g directory
\* segments of its path before the filename, joined by the separator (stated
\* of the paths that have g directory names before the filename).
GroupIsLastSegments ==
    \A n \in DOMAIN nodes :
        LET dirs == Split(dirname(n))
            last == LastSegments(dirs, group_granularity)
        IN  (Len(dirs) >= group_granularity /\ \A i \in DOMAIN last : last[i] # <<>>)
            => nodes[n].group = JoinSep(last)

\* text is one delimited include argument with nothing after it: a quoted
\* string or an angle-bracket token that ends at its first closing delimiter
Delimited(text) ==
    /\ Len(text) >= 2
    /\ \/ text[1] = Quote /\ Find(Tail(text), Quote) = Len(text) - 1
       \/ text[1] = "<" /\ Find(Tail(text), ">") = Len(text) - 1

\* C10: a token is extracted only from a line that is #include, one space and a
\* quoted string or an angle-bracket token with nothing before or after, and
\* the token is the text between the delimiters.
StrictDirectiveOnly ==
    (extracted.tried /\ extracted.matched) =>
        LET body == BeforeEnd(line)
        IN  /\ Len(body) >= 4
            /\ body[1] = "#include"
            /\ body[2] = " "
            /\ Delimited(SubSeq(body, 3, Len(body)))
            /\ extracted.token = SubSeq(body, 4, Len(body) - 1)

====
